---- MODULE Spec2Model ----
(***************************************************************************)
(* A model of hibob_monitor: the record model (models.py), the history     *)
(* cache (cache.py), the structural differ and list comparator             *)
(* (change_detection.py) and one run of the monitor (__main__.py).         *)
(*                                                                         *)
(* Python values are tagged records: None, Str(s), Num(n), Dict(f) with f  *)
(* a function from string keys to values, List(s) with s a sequence.       *)
(* A call that can raise returns [raised |-> BOOLEAN, value |-> ...].      *)
(***************************************************************************)
EXTENDS Integers, Sequences, FiniteSets, TLC

VARIABLES
    file,      \* the cache file on disk: [st, data]
    now,       \* the wall clock that datetime.now() reads
    cache_config, \* the CacheConfig the callers pass to save_cache
    call,      \* the last finished call of the cache API, with its inputs
    streak,    \* appends of one content in a row to a cache that began empty
    dd_in,     \* input of _deduplicate_consecutive (pure-function check)
    dd_out,    \* its output, or NotRun
    cmp_cur,   \* compare_employee_lists: the current snapshot
    cmp_prev,  \* compare_employee_lists: the previous snapshot
    cmp_out,   \* its outcome, or NotRun
    run,       \* the monitor process: its position and what it has done
    last_saved, \* the sequence the last save_cache wrote, while the file holds it
    diff_in,   \* _deep_diff: obj1, obj2 and ignored_paths
    diff_out,  \* its list of FieldChanges, or NotDone
    raw_in,    \* Employee.from_raw_data: the raw record
    emp_out,   \* its outcome, or NotDone
    procs,     \* two invocations appending to one cache file
    endpoints, \* get_active_employees: what the server answers per endpoint
    fetch      \* its position in API_ENDPOINTS and its outcome

vars == <<file, now, cache_config, call, streak, dd_in, dd_out, cmp_cur, cmp_prev, cmp_out, run,
          last_saved, diff_in, diff_out, raw_in, emp_out, procs, endpoints, fetch>>

(***************************************************************************)
(* Bounds of the model.                                                    *)
(***************************************************************************)
MaxInitLen == 2      \* longest history found on disk at the start
MaxSaves == 3        \* cache API calls that take a fresh timestamp
MaxEntriesHi == 3    \* largest max_entries tried
MaxNegEntries == 1   \* max_entries ranges over -MaxNegEntries..MaxEntriesHi
MaxDedupLen == 4     \* longest input of _deduplicate_consecutive
MaxEmployees == 2    \* employees per compared snapshot
MaxRuns == 3         \* runs of the monitor
MaxListLen == 2      \* longest list inside a diffed value

NotRun == [t |-> "notrun"]
NotDone == [done |-> FALSE]
Done(x) == [done |-> TRUE, value |-> x]

(***************************************************************************)
(* Python values.                                                          *)
(***************************************************************************)
None == [t |-> "none"]
Str(s) == [t |-> "str", v |-> s]
Num(n) == [t |-> "int", v |-> n]
Dict(f) == [t |-> "dict", v |-> f]
List(s) == [t |-> "list", v |-> s]
Bool(b) == [t |-> "bool", v |-> b]
EmptyDict == Dict(<<>>)

\* a field a mapping does not have
Missing == [t |-> "missing"]

\* the mapping that holds the fields of `fields` that are not Missing
DictOf(fields) ==
    Dict([k \in {k \in DOMAIN fields : fields[k] # Missing} |-> fields[k]])

IsDict(x) == x.t = "dict"
IsList(x) == x.t = "list"

\* bool(x)
Truthy(x) ==
    CASE x.t = "none" -> FALSE
      [] x.t = "str" -> x.v # ""
      [] x.t = "int" -> x.v # 0
      [] x.t = "bool" -> x.v
      [] x.t = "dict" -> DOMAIN x.v # {}
      [] x.t = "list" -> Len(x.v) # 0

\* a or b
Or(a, b) == IF Truthy(a) THEN a ELSE b

\* d.get(k, default) on a dict d
Get(d, k, default) == IF k \in DOMAIN d.v THEN d.v[k] ELSE default

Digit(n) == <<"0", "1", "2", "3", "4", "5", "6", "7", "8", "9">>[n + 1]

\* str(x) for the scalars a record holds
PyStr(x) ==
    CASE x.t = "str" -> x.v
      [] x.t = "none" -> "None"
      [] x.t = "int" -> Digit(x.v)

\* s.lower() on the status strings of the records used here
Lower(s) ==
    CASE s = "Active" -> "active"
      [] s = "ACTIVE" -> "active"
      [] OTHER -> s

\* f"{first} {last}".strip() for names without surrounding blanks
FirstLast(first, last) ==
    IF first = "" THEN last
    ELSE IF last = "" THEN first
    ELSE first \o " " \o last

(***************************************************************************)
(* models.py: Employee and EmployeeList.                                   *)
(***************************************************************************)
Raised == [raised |-> TRUE]
Returned(x) == [raised |-> FALSE, value |-> x]

\* Employee.from_raw_data raises AttributeError on `.get` of a non-mapping:
\* the record itself, or a `work` entry that is present and no mapping.
FromRawDataRaises(raw_data) ==
    \/ ~IsDict(raw_data)
    \/ ~IsDict(Get(raw_data, "work", EmptyDict))

\* The conditional expression of models.py:33-37 parses as
\*   (email or work.email) if isinstance(work, dict) else ("" or personalEmail or "")
EmailOf(raw_data) ==
    IF IsDict(Get(raw_data, "work", None))
    THEN Or(Get(raw_data, "email", Str("")),
            Get(Get(raw_data, "work", EmptyDict), "email", Str("")))
    ELSE Or(Or(Str(""), Get(raw_data, "personalEmail", Str(""))), Str(""))

FullNameOf(raw_data) ==
    Or(Or(Or(Or(Get(raw_data, "fullName", Str("")),
                Get(raw_data, "displayName", Str(""))),
             Get(raw_data, "name", Str(""))),
          Str(FirstLast(PyStr(Get(raw_data, "firstName", Str(""))),
                        PyStr(Get(raw_data, "lastName", Str("")))))),
       Str("Unknown"))

\* Employee.from_raw_data, for a record on which it does not raise
EmployeeFromRawData(raw_data) ==
    [id |-> PyStr(Get(raw_data, "id", Str(""))),
     email |-> EmailOf(raw_data),
     full_name |-> FullNameOf(raw_data),
     status |-> Lower(PyStr(Get(raw_data, "status", Str("active")))),
     department |-> PyStr(Get(Get(raw_data, "work", EmptyDict), "department", Str(""))),
     site |-> PyStr(Get(Get(raw_data, "work", EmptyDict), "site", Str(""))),
     raw_data |-> raw_data]

\* Employee.__eq__: the raw records are deeply equal
EmployeeEq(a, b) == a.raw_data = b.raw_data

\* EmployeeList.__eq__: the employee lists are equal, timestamps ignored
EmployeeListEqAllFields(a, b) == a = b
EmployeeListEq(a, b) ==
    /\ Len(a.employees) = Len(b.employees)
    /\ \A i \in 1..Len(a.employees) : EmployeeEq(a.employees[i], b.employees[i])

\* EmployeeList.from_raw_data at wall-clock time t
EmployeeListFromRawData(employees_data, t) ==
    [timestamp |-> t,
     count |-> Num(Len(employees_data)),
     employees |-> [i \in 1..Len(employees_data) |->
                       EmployeeFromRawData(employees_data[i])]]

\* datetime.isoformat / datetime.fromisoformat for the clock values 0..9
IsoFormatDateOnly(t) == "2024-01-01"
IsoFormat(t) == "2024-01-01T00:00:0" \o Digit(t)
IsIsoFormat(x) == x.t = "str" /\ \E t \in 0..9 : IsoFormat(t) = x.v
FromIsoFormat(x) == CHOOSE t \in 0..9 : IsoFormat(t) = x.v

\* EmployeeList.to_dict
ToDict(el) ==
    Dict([timestamp |-> Str(IsoFormat(el.timestamp)),
          count |-> el.count,
          employees |-> List([i \in 1..Len(el.employees) |->
                                 el.employees[i].raw_data])])

\* `for x in v` over a JSON value: a list yields its items, an empty mapping
\* or string yields nothing; a number or null is not iterable, and a
\* non-empty mapping or string yields strings, which no caller here accepts.
Iterable(v) ==
    \/ IsList(v)
    \/ (v.t = "dict" /\ DOMAIN v.v = {})
    \/ (v.t = "str" /\ v.v = "")
Items(v) == IF IsList(v) THEN v.v ELSE <<>>

\* EmployeeList.from_dict raises KeyError/TypeError/ValueError/AttributeError
FromDictRaises(data) ==
    \/ ~IsDict(data)
    \/ "timestamp" \notin DOMAIN data.v
    \/ ~IsIsoFormat(data.v["timestamp"])
    \/ ~Iterable(Get(data, "employees", List(<<>>)))
    \/ \E i \in 1..Len(Items(Get(data, "employees", List(<<>>)))) :
           FromRawDataRaises(Items(Get(data, "employees", List(<<>>)))[i])

\* EmployeeList.from_dict, for a mapping on which it does not raise
FromDict(data) ==
    LET employees_data == Items(Get(data, "employees", List(<<>>)))
        employees == [i \in 1..Len(employees_data) |->
                         EmployeeFromRawData(employees_data[i])]
    IN  [timestamp |-> FromIsoFormat(data.v["timestamp"]),
         count |-> Get(data, "count", Num(Len(employees))),
         employees |-> employees]

(***************************************************************************)
(* cache.py: the history cache.                                            *)
(*                                                                         *)
(* The file is [st, data]: st is "missing", "unreadable" (every open       *)
(* raises OSError: a directory, or no permission), "undecodable" (bytes    *)
(* that are not UTF-8), "invalid_json" (text json.load rejects, which      *)
(* includes the empty and the truncated file) or "json" with data the      *)
(* JSON value it holds.                                                    *)
(***************************************************************************)
File(st, data) == [st |-> st, data |-> data]

\* cache.py:36-40 and 44-48: close a group, keeping its first and last
FlushGroupFirstOnly(deduplicated, current_group) ==
    Append(deduplicated, current_group[1])
FlushGroup(deduplicated, current_group) ==
    IF Len(current_group) = 1
    THEN Append(deduplicated, current_group[1])
    ELSE Append(Append(deduplicated, current_group[1]),
                current_group[Len(current_group)])

\* cache.py:31-48: the loop over entries[1:], then the last group
RECURSIVE DedupLoop(_, _, _, _)
DedupLoop(entries, i, deduplicated, current_group) ==
    IF i > Len(entries)
    THEN FlushGroup(deduplicated, current_group)
    ELSE IF EmployeeListEq(entries[i], current_group[Len(current_group)])
    THEN DedupLoop(entries, i + 1, deduplicated, Append(current_group, entries[i]))
    ELSE DedupLoop(entries, i + 1, FlushGroup(deduplicated, current_group),
                   <<entries[i]>>)

\* _deduplicate_consecutive
DeduplicateConsecutive(entries) ==
    IF Len(entries) = 0 THEN entries
    ELSE DedupLoop(entries, 2, <<>>, <<entries[1]>>)

\* Python's seq[start:], start possibly negative
PySliceFrom(seq, start) ==
    LET n == Len(seq)
        lo == IF start < 0
              THEN (IF n + start < 0 THEN 0 ELSE n + start)
              ELSE (IF start > n THEN n ELSE start)
    IN  SubSeq(seq, lo + 1, n)

\* cache.py:93-94
TrimKeepsOldest(all_entries, config) ==
    IF Len(all_entries) > config.max_entries
    THEN SubSeq(all_entries, 1, config.max_entries)
    ELSE all_entries
Trim(all_entries, config) ==
    IF Len(all_entries) > config.max_entries
    THEN PySliceFrom(all_entries, -config.max_entries)
    ELSE all_entries

\* load_cache
LoadCache(f) ==
    CASE f.st = "missing" -> Returned(<<>>)
      [] f.st = "unreadable" -> Returned(<<>>)      \* OSError, caught
      [] f.st = "invalid_json" -> Returned(<<>>)    \* JSONDecodeError, caught
      [] f.st = "undecodable" -> Raised             \* UnicodeDecodeError
      [] f.st = "json" ->
            IF ~IsDict(f.data) THEN Raised          \* AttributeError on .get
            ELSE LET entries_data == Get(f.data, "entries", List(<<>>))
                 IN  IF \/ ~Iterable(entries_data)
                        \/ \E i \in 1..Len(Items(entries_data)) :
                               FromDictRaises(Items(entries_data)[i])
                     THEN Raised
                     ELSE Returned([i \in 1..Len(Items(entries_data)) |->
                                       FromDict(Items(entries_data)[i])])

\* get_latest_cache
GetLatestCacheFirst(f) ==
    LET entries == LoadCache(f)
    IN  IF entries.raised THEN Raised
        ELSE Returned(IF Len(entries.value) # 0
                      THEN entries.value[1] ELSE None)
GetLatestCache(f) ==
    LET entries == LoadCache(f)
    IN  IF entries.raised THEN Raised
        ELSE Returned(IF Len(entries.value) # 0
                      THEN entries.value[Len(entries.value)] ELSE None)

\* cache.py:86-94: the sequence save_cache means to persist
NewEntriesWithoutAppend(existing_entries, employee_list, config) == existing_entries
NewEntries(existing_entries, employee_list, config) ==
    LET all_entries == Append(existing_entries, employee_list)
    IN  Trim(IF config.deduplicate_consecutive
             THEN DeduplicateConsecutive(all_entries)
             ELSE all_entries,
             config)

\* cache.py:100-106
CacheData(all_entries, config) ==
    Dict([cache_config |->
             Dict([max_entries |-> Num(config.max_entries),
                   deduplicate_consecutive |-> Bool(config.deduplicate_consecutive)]),
          entries |-> List([i \in 1..Len(all_entries) |-> ToDict(all_entries[i])])])

\* save_cache under a storage fault: "none", or an OSError raised by
\* "mkdir", by "open" (before the file is truncated) or by "write" (after
\* open("w") truncated it, part-way through json.dump).  Returns whether it
\* raised and the file it leaves.
SaveCache(employee_list, f, config, fault) ==
    LET existing_entries == LoadCache(f)
    IN  IF existing_entries.raised
        THEN [raised |-> TRUE, file |-> f]
        ELSE LET all_entries == NewEntries(existing_entries.value, employee_list, config)
             IN  CASE fault = "mkdir" -> [raised |-> FALSE, file |-> f]
                   [] fault = "open" -> [raised |-> FALSE, file |-> f]
                   [] fault = "write" ->
                         [raised |-> FALSE, file |-> File("invalid_json", None)]
                   [] fault = "none" ->
                         [raised |-> FALSE,
                          file |-> File("json", CacheData(all_entries, config))]

Faults == {"none", "mkdir", "open", "write"}
\* a path that cannot be opened for reading cannot be opened for writing
FaultsOn(f) == IF f.st = "unreadable" THEN {"mkdir", "open"} ELSE Faults

(***************************************************************************)
(* The records, snapshots and files the checks draw from.                  *)
(***************************************************************************)
RawA_HR == Dict([id |-> Str("1"), email |-> Str("a@x.com"),
                 work |-> Dict([department |-> Str("HR")])])
RawA_IT == Dict([id |-> Str("1"), email |-> Str("a@x.com"),
                 work |-> Dict([department |-> Str("IT")])])
RawB == Dict([id |-> Str("2"), email |-> Str("b@x.com"),
              work |-> Dict([department |-> Str("HR")])])

\* what a fetch can return: the employee records of one snapshot
CacheContents == {<<RawA_HR>>, <<RawA_IT>>}

Configs == [max_entries : (-MaxNegEntries)..MaxEntriesHi,
            deduplicate_consecutive : BOOLEAN]

\* config.py:66
DEFAULT_CACHE_CONFIG == [max_entries |-> 200, deduplicate_consecutive |-> TRUE]

\* histories an earlier program version or configuration may have left
InitHistories ==
    UNION {[1..k -> CacheContents] : k \in 0..MaxInitLen}
HistoryFile(h) ==
    File("json",
         CacheData([i \in 1..Len(h) |-> EmployeeListFromRawData(h[i], i)],
                   [max_entries |-> 200, deduplicate_consecutive |-> FALSE]))

\* files json.load accepts whose shape is not the cache's
WrongShapeFiles ==
    {File("json", List(<<>>)),
     File("json", Dict([entries |-> Num(5)])),
     File("json", Dict([entries |-> List(<<Dict([count |-> Num(1)])>>)])),
     File("json", Dict([entries |-> List(<<Dict([timestamp |-> Str("yesterday")])>>)])),
     File("json", Dict([entries |-> List(<<
         Dict([timestamp |-> Str(IsoFormat(1)),
               employees |-> List(<<Dict([id |-> Str("1"), work |-> Str("HR")])>>)])>>)]))}

InitFiles ==
    {File("missing", None), File("unreadable", None),
     File("undecodable", None), File("invalid_json", None)}
    \cup WrongShapeFiles
    \cup {HistoryFile(h) : h \in InitHistories}

\* the sequence of snapshot mappings a well-formed cache file holds
PersistedEntries(f) == Items(Get(f.data, "entries", List(<<>>)))

(***************************************************************************)
(* The cache API, called with any snapshot, configuration and storage      *)
(* fault.  `call` records the finished call: what the file held before,    *)
(* the arguments, and the outcome.                                         *)
(***************************************************************************)
NoCall == [op |-> "none"]
NoRun == [pc |-> "off"]

NoProcs == [t |-> "noprocs"]
NoFetch == endpoints = NotRun /\ fetch = NotDone

Idle ==
    /\ dd_in = <<>> /\ dd_out = NotDone
    /\ cmp_cur = NotRun /\ cmp_prev = NotRun /\ cmp_out = NotDone
    /\ diff_in = NotRun /\ diff_out = NotDone
    /\ raw_in = NotRun /\ emp_out = NotDone
    /\ procs = NoProcs /\ NoFetch

\* the cache holds no snapshot: no file, or a file with no entries
EmptyCache(f) ==
    \/ f.st = "missing"
    \/ (f.st = "json" /\ IsDict(f.data) /\ Len(PersistedEntries(f)) = 0)

\* `streak` after save_cache(content, config) ended with `fault`, `raised`:
\* n counts the successful appends while all of them, since the empty
\* cache, carried one content.
StreakAfter(content, fault, raised) ==
    IF /\ streak.live /\ fault = "none" /\ ~raised
       /\ (streak.n = 0 \/ streak.content = content)
    THEN [live |-> TRUE, n |-> streak.n + 1, content |-> content]
    ELSE [live |-> FALSE, n |-> 0, content |-> <<>>]

\* `last_saved` after save_cache(employee_list, cache_config) ended with `fault`,
\* `raised`: the list all_entries of cache.py:94 once json.dump has written
\* it, nothing once a failed write has left the file truncated
SavedAfter(employee_list, fault, raised) ==
    IF raised \/ fault \in {"mkdir", "open"} THEN last_saved
    ELSE IF fault = "write" THEN NotDone
    ELSE Done(NewEntries(LoadCache(file).value, employee_list, cache_config))

InitCache ==
    /\ file \in InitFiles
    /\ now = MaxInitLen + 1
    /\ cache_config \in Configs
    /\ call = NoCall
    /\ streak = [live |-> EmptyCache(file), n |-> 0, content |-> <<>>]
    /\ last_saved = NotDone
    /\ run = NoRun
    /\ Idle

CallSaveCache ==
    /\ now <= MaxInitLen + MaxSaves
    /\ \E content \in CacheContents, fault \in FaultsOn(file) :
          LET employee_list == EmployeeListFromRawData(content, now)
              r == SaveCache(employee_list, file, cache_config, fault)
          IN  /\ file' = r.file
              /\ call' = [op |-> "save_cache", pre |-> file, arg |-> employee_list,
                          config |-> cache_config, fault |-> fault,
                          raised |-> r.raised, result |-> None]
              /\ streak' = StreakAfter(content, fault, r.raised)
              /\ last_saved' = SavedAfter(employee_list, fault, r.raised)
    /\ now' = now + 1
    /\ UNCHANGED <<cache_config, dd_in, dd_out, cmp_cur, cmp_prev, cmp_out, run,
                   diff_in, diff_out, raw_in, emp_out, procs, endpoints, fetch>>

CallLoadCache ==
    /\ LET r == LoadCache(file)
       IN  call' = [op |-> "load_cache", pre |-> file, raised |-> r.raised,
                    result |-> IF r.raised THEN None ELSE r.value]
    /\ UNCHANGED <<file, now, cache_config, streak, dd_in, dd_out, cmp_cur, cmp_prev, cmp_out, run,
                   last_saved, diff_in, diff_out, raw_in, emp_out, procs, endpoints, fetch>>

CallGetLatestCache ==
    /\ LET r == GetLatestCache(file)
       IN  call' = [op |-> "get_latest_cache", pre |-> file, raised |-> r.raised,
                    result |-> IF r.raised THEN None ELSE r.value]
    /\ UNCHANGED <<file, now, cache_config, streak, dd_in, dd_out, cmp_cur, cmp_prev, cmp_out, run,
                   last_saved, diff_in, diff_out, raw_in, emp_out, procs, endpoints, fetch>>

NextCache == CallSaveCache \/ CallLoadCache \/ CallGetLatestCache

SpecCache == InitCache /\ [][NextCache]_vars

(***************************************************************************)
(* Claims about the history cache, checked under SpecCache.                *)
(***************************************************************************)
SavedOk == call.op = "save_cache" /\ ~call.raised /\ call.fault = "none"

\* the snapshots of a persisted entry sequence are content-equal
SameContent(d1, d2) == Get(d1, "employees", None) = Get(d2, "employees", None)

\* C1: after a successful save_cache the persisted sequence is no longer
\* than max_entries, for every configuration whose max_entries can bound a
\* length (max_entries >= 0), with or without deduplication, from any
\* persisted history.
C1_BoundedGrowth ==
    (SavedOk /\ call.config.max_entries >= 0)
        => Len(PersistedEntries(file)) <= call.config.max_entries

\* C2 (as claimed): after a successful deduplicating append no three
\* consecutive persisted snapshots are content-equal, and the same content
\* appended two or more times in a row to an empty cache always leaves
\* exactly two entries (stated here for the configurations that bound the
\* history to a positive length, max_entries >= 1).
NoTripleRun(entries) ==
    \A i \in 1..(Len(entries) - 2) :
        ~(SameContent(entries[i], entries[i + 1])
          /\ SameContent(entries[i + 1], entries[i + 2]))
C2_SameContentLeavesTwo ==
    (SavedOk /\ call.config.deduplicate_consecutive /\ streak.live /\ streak.n >= 2
     /\ call.config.max_entries >= 1)
        => Len(PersistedEntries(file)) = 2
C2_DedupClaimed ==
    /\ (SavedOk /\ call.config.deduplicate_consecutive)
           => NoTripleRun(PersistedEntries(file))
    /\ C2_SameContentLeavesTwo

\* C2 (amended): after a successful deduplicating append no three
\* consecutive persisted snapshots are content-equal; the same content
\* appended two or more times in a row to an empty cache, each time with
\* max_entries >= 2, leaves exactly two entries: the first and the last.
C2_DedupAmended ==
    /\ (SavedOk /\ call.config.deduplicate_consecutive)
           => NoTripleRun(PersistedEntries(file))
    /\ (SavedOk /\ call.config.deduplicate_consecutive
           /\ streak.live /\ streak.n >= 2 /\ call.config.max_entries >= 2)
           => /\ Len(PersistedEntries(file)) = 2
              /\ SameContent(PersistedEntries(file)[1], PersistedEntries(file)[2])
              /\ PersistedEntries(file)[2] = ToDict(call.arg)

\* a third consecutive append of one content has left two entries, and a
\* history holding a run of three was deduplicated
C2_Witness ==
    /\ SavedOk /\ call.config.deduplicate_consecutive
    /\ streak.live /\ streak.n = 3 /\ call.config.max_entries >= 2
    /\ Len(PersistedEntries(file)) = 2

\* C4: when the sequence after the optional deduplication is longer than
\* max_entries (max_entries >= 0), exactly its last max_entries entries are
\* persisted, in order; otherwise it is persisted unchanged.
LastN(seq, n) == SubSeq(seq, Len(seq) - n + 1, Len(seq))
C4_TrimDropsOldest ==
    (SavedOk /\ call.config.max_entries >= 0) =>
        LET all_entries == Append(LoadCache(call.pre).value, call.arg)
            seq == IF call.config.deduplicate_consecutive
                   THEN DeduplicateConsecutive(all_entries) ELSE all_entries
            kept == IF Len(seq) > call.config.max_entries
                    THEN LastN(seq, call.config.max_entries) ELSE seq
        IN  PersistedEntries(file) = [i \in 1..Len(kept) |-> ToDict(kept[i])]

\* C6: load_cache and get_latest_cache never raise; for storage that is
\* missing, unreadable, not JSON or JSON of the wrong shape they return
\* the empty sequence / None.
Absent(op) == IF op = "load_cache" THEN <<>> ELSE None
C6_LoadNeverRaises ==
    (/\ call.op \in {"load_cache", "get_latest_cache"}
     /\ \/ call.pre.st \in {"missing", "unreadable", "invalid_json"}
        \/ call.pre \in WrongShapeFiles)
        => ~call.raised /\ call.result = Absent(call.op)

\* C7: a save_cache that hits a storage write failure (mkdir, open, or
\* part-way through the write) returns without raising, and load_cache
\* afterwards returns what it returned before the call.
C7_FailedSaveKeepsHistory ==
    (call.op = "save_cache" /\ call.fault # "none" /\ ~LoadCache(call.pre).raised)
        => /\ ~call.raised
           /\ LoadCache(file) = LoadCache(call.pre)

\* C8: get_latest_cache returns the last element of the persisted sequence
\* when it is non-empty, and None exactly when the sequence is empty or
\* the file does not exist.
C8_LatestIsTail ==
    (call.op = "get_latest_cache" /\ ~call.raised) =>
        LET persisted == IF call.pre.st = "json"
                         THEN PersistedEntries(call.pre) ELSE <<>>
        IN  /\ Len(persisted) > 0
                 => call.result = FromDict(persisted[Len(persisted)])
            /\ call.result = None <=> Len(persisted) = 0

\* get_latest_cache has returned the tail of a history whose first and
\* last snapshots differ
C8_Witness ==
    /\ call.op = "get_latest_cache" /\ ~call.raised
    /\ call.pre.st = "json"
    /\ Len(PersistedEntries(call.pre)) >= 2
    /\ PersistedEntries(call.pre)[1] # PersistedEntries(call.pre)[Len(PersistedEntries(call.pre))]
    /\ call.result = FromDict(PersistedEntries(call.pre)[Len(PersistedEntries(call.pre))])

\* the raw records of a snapshot, in order
RawRecords(employee_list) ==
    [j \in 1..Len(employee_list.employees) |-> employee_list.employees[j].raw_data]

\* C16: load_cache of a file a successful save_cache wrote returns a
\* sequence of the length and order of the one persisted, whose snapshots
\* have the timestamps and the employee raw records of those persisted.
C16_RoundTrip ==
    (call.op = "load_cache" /\ last_saved.done) =>
        /\ ~call.raised
        /\ Len(call.result) = Len(last_saved.value)
        /\ \A i \in 1..Len(last_saved.value) :
               /\ call.result[i].timestamp = last_saved.value[i].timestamp
               /\ RawRecords(call.result[i]) = RawRecords(last_saved.value[i])

\* load_cache has returned a saved history of three snapshots whose
\* contents are not all the same
C16_Witness ==
    /\ call.op = "load_cache" /\ last_saved.done /\ ~call.raised
    /\ Len(last_saved.value) = 3
    /\ Len(call.result) = 3
    /\ RawRecords(call.result[1]) # RawRecords(call.result[3])
    /\ call.result[1].timestamp # call.result[3].timestamp

\* C24: after a successful save_cache(s, config) with max_entries >= 1,
\* get_latest_cache returns the snapshot s (its timestamp and its raw
\* records), whatever the history before and with or without
\* deduplication: neither deduplication nor trimming removes the snapshot
\* just appended.
C24_LatestIsAppended ==
    (SavedOk /\ call.config.max_entries >= 1)
        => LET latest == GetLatestCache(file)
           IN  /\ ~latest.raised
               /\ latest.value # None
               /\ latest.value.timestamp = call.arg.timestamp
               /\ RawRecords(latest.value) = RawRecords(call.arg)

\* a deduplicating save onto a history of two or more snapshots removed
\* older snapshots, and the latest is the one it appended
C24_Witness ==
    /\ SavedOk /\ call.config.max_entries >= 1
    /\ call.config.deduplicate_consecutive
    /\ call.pre.st = "json"
    /\ Len(PersistedEntries(call.pre)) >= 2
    /\ Len(PersistedEntries(file)) <= Len(PersistedEntries(call.pre))
    /\ GetLatestCache(file) = Returned(call.arg)

(***************************************************************************)
(* _deduplicate_consecutive as a pure function: every sequence of at most  *)
(* MaxDedupLen snapshots over three contents, the i-th stamped i.          *)
(***************************************************************************)
DedupContents == {<<RawA_HR>>, <<RawA_IT>>, <<RawA_HR, RawB>>}

DedupInputs ==
    {[i \in 1..Len(h) |-> EmployeeListFromRawData(h[i], i)] :
        h \in UNION {[1..k -> DedupContents] : k \in 0..MaxDedupLen}}

InitDedup ==
    /\ dd_in \in DedupInputs
    /\ dd_out = NotDone
    /\ file = File("missing", None) /\ now = 0
    /\ cache_config = DEFAULT_CACHE_CONFIG
    /\ call = NoCall /\ run = NoRun
    /\ streak = [live |-> FALSE, n |-> 0, content |-> <<>>]
    /\ cmp_cur = NotRun /\ cmp_prev = NotRun /\ cmp_out = NotDone
    /\ last_saved = NotDone /\ diff_in = NotRun /\ diff_out = NotDone
    /\ raw_in = NotRun /\ emp_out = NotDone /\ procs = NoProcs /\ NoFetch

Deduplicate ==
    /\ ~dd_out.done
    /\ dd_out' = Done(DeduplicateConsecutive(dd_in))
    /\ UNCHANGED <<file, now, cache_config, call, streak, dd_in,
                   cmp_cur, cmp_prev, cmp_out, run,
                   last_saved, diff_in, diff_out, raw_in, emp_out, procs, endpoints, fetch>>

NextDedup == Deduplicate

SpecDedup == InitDedup /\ [][NextDedup]_vars

\* entries[i] opens or closes its maximal run of content-equal snapshots
Boundary(entries, i) ==
    \/ i = 1
    \/ i = Len(entries)
    \/ entries[i - 1].employees # entries[i].employees
    \/ entries[i].employees # entries[i + 1].employees

KeepBoundaries(entries) ==
    LET idx == SelectSeq([i \in 1..Len(entries) |-> i],
                         LAMBDA i : Boundary(entries, i))
    IN  [j \in 1..Len(idx) |-> entries[idx[j]]]

\* C3: the result holds, in order and with their own timestamps, exactly
\* the first and the last snapshot of every maximal run of consecutive
\* content-equal snapshots; a run of one is kept as is and nothing of
\* another run is dropped or reordered.
C3_DedupKeepsBoundaries ==
    dd_out.done => dd_out.value = KeepBoundaries(dd_in)

\* a run of three was collapsed to its first and last while a run of one
\* before it was kept
C3_Witness ==
    /\ dd_out.done
    /\ Len(dd_in) = 4
    /\ dd_in[1].employees # dd_in[2].employees
    /\ dd_in[2].employees = dd_in[3].employees
    /\ dd_in[3].employees = dd_in[4].employees
    /\ dd_out.value = <<dd_in[1], dd_in[2], dd_in[4]>>

(***************************************************************************)
(* change_detection.py: the structural differ and the list comparator.     *)
(***************************************************************************)
\* config.py:68-85
IGNORED_EMPLOYEE_PATHS ==
    {"work.yearsOfService", "work.durationOfEmployment",
     "work.tenureDurationYears", "work.tenureDuration", "work.tenureYears",
     "payroll.timeSinceLastSalaryChange", "avatarUrl", "about.avatar",
     "work.directReports", "work.indirectReports", "employee.orgLevel",
     "work.reportsTo.surname", "work.reportsTo.firstName", "work.reportsTo.id",
     "work.secondLevelManager", "work.manager"}

\* iteration over a Python set: some order, not specified; the model takes
\* one, and no check below reads the order of a mapping's changes
RECURSIVE SetToSeq(_)
SetToSeq(S) ==
    IF S = {} THEN <<>>
    ELSE LET x == CHOOSE y \in S : TRUE
         IN  <<x>> \o SetToSeq(S \ {x})

\* extend_path
ExtendPath(path, extra) == IF path # "" THEN path \o "." \o extra ELSE extra

\* f"[{i}]"
IndexSegmentZero(i) == "[0]"
IndexSegment(i) == "[" \o Digit(i) \o "]"

FieldChange(path, old, new) ==
    [field_path |-> path, old_value |-> old, new_value |-> new]

\* zip_longest pads the shorter list with None
ItemOrAbsent(seq, i) == IF i <= Len(seq) THEN seq[i] ELSE Missing
ItemOrNone(seq, i) == IF i <= Len(seq) THEN seq[i] ELSE None

\* change_detection.py:31
IgnoreNothing(path, ignored_paths) == FALSE
IsIgnored(path, ignored_paths) == path \in ignored_paths

\* change_detection.py:34: obj1 == obj2, deep equality of JSON values
NeverEqual(obj1, obj2) == FALSE
DeepEqual(obj1, obj2) == obj1 = obj2

\* _deep_diff
RECURSIVE DeepDiff(_, _, _, _)
RECURSIVE DiffKeys(_, _, _, _, _)
RECURSIVE DiffItems(_, _, _, _, _)
DeepDiff(obj1, obj2, path, ignored_paths) ==
    IF IsIgnored(path, ignored_paths) THEN <<>>
    ELSE IF DeepEqual(obj1, obj2) THEN <<>>
    ELSE IF IsDict(obj1) /\ IsDict(obj2)
    THEN DiffKeys(obj1, obj2, SetToSeq(DOMAIN obj1.v \cup DOMAIN obj2.v),
                  path, ignored_paths)
    ELSE IF IsList(obj1) /\ IsList(obj2)
    THEN DiffItems(obj1.v, obj2.v, 1, path, ignored_paths)
    ELSE <<FieldChange(path, obj1, obj2)>>
\* change_detection.py:39-42
DiffKeys(obj1, obj2, all_keys, path, ignored_paths) ==
    IF all_keys = <<>> THEN <<>>
    ELSE DeepDiff(Get(obj1, Head(all_keys), None), Get(obj2, Head(all_keys), None),
                  ExtendPath(path, Head(all_keys)), ignored_paths)
         \o DiffKeys(obj1, obj2, Tail(all_keys), path, ignored_paths)
\* change_detection.py:45-48; i counts from 1, enumerate from 0
DiffItems(items1, items2, i, path, ignored_paths) ==
    IF i > Len(items1) /\ i > Len(items2) THEN <<>>
    ELSE DeepDiff(ItemOrNone(items1, i), ItemOrNone(items2, i),
                  ExtendPath(path, IndexSegment(i - 1)), ignored_paths)
         \o DiffItems(items1, items2, i + 1, path, ignored_paths)

\* _compare_employee_data
CompareEmployeeData(current, previous) ==
    DeepDiff(current.raw_data, previous.raw_data, "", IGNORED_EMPLOYEE_PATHS)

\* _get_employee_key
GetEmployeeKey(employee) == <<employee.id, employee.email>>

\* _build_employee_index: a later employee replaces an earlier one of its key
BuildEmployeeIndexFirst(employees) ==
    [key \in {GetEmployeeKey(employees[i]) : i \in 1..Len(employees)} |->
        employees[CHOOSE i \in 1..Len(employees) :
                     /\ GetEmployeeKey(employees[i]) = key
                     /\ \A j \in 1..(i - 1) :
                            GetEmployeeKey(employees[j]) # key]]
BuildEmployeeIndex(employees) ==
    [key \in {GetEmployeeKey(employees[i]) : i \in 1..Len(employees)} |->
        employees[CHOOSE i \in 1..Len(employees) :
                     /\ GetEmployeeKey(employees[i]) = key
                     /\ \A j \in (i + 1)..Len(employees) :
                            GetEmployeeKey(employees[j]) # key]]

\* models.py:10-17, 129-133: the generated __init__ of ModifiedEmployee has
\* the six fields of EmployeeDescription as required parameters; a call
\* that leaves one out raises TypeError
RequiredFields == {"id", "email", "full_name", "status", "department", "site"}
NewModifiedEmployee(kwargs) ==
    IF RequiredFields \subseteq DOMAIN kwargs
    THEN Returned(kwargs)
    ELSE Raised

\* change_detection.py:86-98, for one key of both snapshots: the field
\* changes, and the ModifiedEmployee built when there are some
CompareKey(current_emp, previous_emp) ==
    LET field_changes == CompareEmployeeData(current_emp, previous_emp)
    IN  [field_changes |-> field_changes,
         modified |-> IF field_changes # <<>>
                      THEN NewModifiedEmployee(
                               [id |-> current_emp.id,
                                email |-> current_emp.email,
                                full_name |-> current_emp.full_name,
                                changes |-> field_changes])
                      ELSE Returned(None)]

\* change_detection.py:78 and 82: the keys of one snapshot only
AllCurrentKeys(current_keys, previous_keys) == current_keys
AddedKeys(current_keys, previous_keys) == current_keys \ previous_keys
RemovedKeys(current_keys, previous_keys) == previous_keys \ current_keys

\* compare_employee_lists: raised, or the ChangeReport; field_changes keeps
\* what line 90 computed for each key of both snapshots
CompareEmployeeLists(current, previous) ==
    LET current_index == BuildEmployeeIndex(current.employees)
        previous_index == BuildEmployeeIndex(previous.employees)
        current_keys == DOMAIN current_index
        previous_keys == DOMAIN previous_index
        added == SetToSeq(AddedKeys(current_keys, previous_keys))
        removed == SetToSeq(RemovedKeys(current_keys, previous_keys))
        both == SetToSeq(current_keys \cap previous_keys)
        cmp == [key \in current_keys \cap previous_keys |->
                   CompareKey(current_index[key], previous_index[key])]
        changed == SelectSeq(both, LAMBDA key : cmp[key].field_changes # <<>>)
        raised == \E key \in DOMAIN cmp : cmp[key].modified.raised
    IN  [raised |-> raised,
         field_changes |-> [key \in DOMAIN cmp |-> cmp[key].field_changes],
         report |->
             IF raised THEN None
             ELSE [current_timestamp |-> current.timestamp,
                   previous_timestamp |-> previous.timestamp,
                   added |-> [i \in 1..Len(added) |-> current_index[added[i]]],
                   removed |-> [i \in 1..Len(removed) |->
                                   previous_index[removed[i]]],
                   modified |-> [i \in 1..Len(changed) |->
                                    cmp[changed[i]].modified.value]]]

\* ChangeReport.total_changes, has_changes
TotalChanges(report) ==
    Len(report.added) + Len(report.removed) + Len(report.modified)
HasChanges(report) == TotalChanges(report) > 0

(***************************************************************************)
(* compare_employee_lists as a pure function of two well-formed snapshots  *)
(* of at most MaxEmployees employees.                                      *)
(***************************************************************************)
RawA_Tenure == Dict([id |-> Str("1"), email |-> Str("a@x.com"),
                     work |-> Dict([department |-> Str("HR"),
                                    tenureYears |-> Str("3")])])

\* malformed records: no id and no email, so the key is ("", "")
RawNoId_X == Dict([fullName |-> Str("X")])
RawNoId_Y == Dict([fullName |-> Str("Y")])

CompareRaws == {RawA_HR, RawA_IT, RawA_Tenure, RawB, RawNoId_X, RawNoId_Y}

CompareContents == UNION {[1..k -> CompareRaws] : k \in 0..MaxEmployees}

InitCompare ==
    /\ \E c \in CompareContents : cmp_cur = EmployeeListFromRawData(c, 2)
    /\ \E c \in CompareContents : cmp_prev = EmployeeListFromRawData(c, 1)
    /\ cmp_out = NotDone
    /\ file = File("missing", None) /\ now = 0
    /\ cache_config = DEFAULT_CACHE_CONFIG
    /\ call = NoCall /\ run = NoRun
    /\ streak = [live |-> FALSE, n |-> 0, content |-> <<>>]
    /\ dd_in = <<>> /\ dd_out = NotDone
    /\ last_saved = NotDone /\ diff_in = NotRun /\ diff_out = NotDone
    /\ raw_in = NotRun /\ emp_out = NotDone /\ procs = NoProcs /\ NoFetch

Compare ==
    /\ ~cmp_out.done
    /\ cmp_out' = Done(CompareEmployeeLists(cmp_cur, cmp_prev))
    /\ UNCHANGED <<file, now, cache_config, call, streak, dd_in, dd_out,
                   cmp_cur, cmp_prev, run,
                   last_saved, diff_in, diff_out, raw_in, emp_out, procs, endpoints, fetch>>

NextCompare == Compare

SpecCompare == InitCompare /\ [][NextCompare]_vars

(***************************************************************************)
(* Claims about the comparator, checked under SpecCompare.                 *)
(***************************************************************************)
\* the locations of a nested value, each a sequence of path segments
RECURSIVE Locations(_)
Locations(v) ==
    IF IsDict(v)
    THEN UNION {{<<k>>} \cup {<<k>> \o ks : ks \in Locations(v.v[k])} :
                   k \in DOMAIN v.v}
    ELSE IF IsList(v)
    THEN UNION {{<<IndexSegment(i - 1)>>}
                \cup {<<IndexSegment(i - 1)>> \o ks : ks \in Locations(v.v[i])} :
                   i \in 1..Len(v.v)}
    ELSE {}

\* the value at a location, None where the record has none
RECURSIVE Lookup(_, _)
Lookup(v, ks) ==
    IF ks = <<>> THEN v
    ELSE IF IsDict(v) THEN Lookup(Get(v, Head(ks), None), Tail(ks))
    ELSE IF IsList(v)
    THEN Lookup(IF \E i \in 1..Len(v.v) : IndexSegment(i - 1) = Head(ks)
                THEN v.v[CHOOSE i \in 1..Len(v.v) : IndexSegment(i - 1) = Head(ks)]
                ELSE None,
                Tail(ks))
    ELSE None

\* the dot/bracket path of a location, built as the descent builds it
RECURSIVE PathString(_)
PathString(ks) ==
    IF ks = <<>> THEN ""
    ELSE ExtendPath(PathString(SubSeq(ks, 1, Len(ks) - 1)), ks[Len(ks)])

CurrentOf(key) == BuildEmployeeIndex(cmp_cur.employees)[key]
PreviousOf(key) == BuildEmployeeIndex(cmp_prev.employees)[key]

\* C9: for an employee of both snapshots, every FieldChange found by
\* compare(current, previous) has old_value the value at its path in the
\* previous record and new_value the value at that path in the current one.
C9_OldIsPrevious ==
    cmp_out.done =>
        \A key \in DOMAIN cmp_out.value.field_changes :
            \A i \in 1..Len(cmp_out.value.field_changes[key]) :
                LET fc == cmp_out.value.field_changes[key][i]
                    cur == CurrentOf(key).raw_data
                    prev == PreviousOf(key).raw_data
                IN  \E ks \in Locations(cur) \cup Locations(prev) :
                        /\ PathString(ks) = fc.field_path
                        /\ fc.old_value = Lookup(prev, ks)
                        /\ fc.new_value = Lookup(cur, ks)

\* C10: compare_employee_lists returns a ChangeReport for every pair of
\* well-formed snapshots; a key of both snapshots whose records differ
\* outside the ignored paths has exactly one ModifiedEmployee in it.
C10_CompareIsTotal ==
    cmp_out.done =>
        /\ ~cmp_out.value.raised
        /\ \A key \in DOMAIN cmp_out.value.field_changes :
               cmp_out.value.field_changes[key] # <<>> =>
                   Cardinality({i \in 1..Len(cmp_out.value.report.modified) :
                       <<cmp_out.value.report.modified[i].id,
                         cmp_out.value.report.modified[i].email>> = key}) = 1

\* the identity keys of a list of employees (or of ModifiedEmployees)
EmployeeKeys(employees) ==
    {<<employees[i].id, employees[i].email>> : i \in 1..Len(employees)}

\* the keys of both snapshots whose records do not differ outside the
\* ignored paths
UnchangedKeys ==
    {key \in DOMAIN cmp_out.value.field_changes :
        cmp_out.value.field_changes[key] = <<>>}

\* C11: compare(C, P) returns a report for every pair of snapshots, and in
\* it every identity key of keys(C) \cup keys(P) is in exactly one of
\* added, removed, modified (with a non-empty change list) and unchanged:
\* the four key sets are pairwise disjoint, no key is listed twice, and
\* their union is keys(C) \cup keys(P).
C11_PartitionTotality ==
    cmp_out.done =>
        /\ ~cmp_out.value.raised
        /\ LET report == cmp_out.value.report
               A == EmployeeKeys(report.added)
               R == EmployeeKeys(report.removed)
               M == EmployeeKeys(report.modified)
               U == UnchangedKeys
           IN  /\ A \cup R \cup M \cup U =
                      EmployeeKeys(cmp_cur.employees) \cup EmployeeKeys(cmp_prev.employees)
               /\ A \cap R = {} /\ A \cap M = {} /\ A \cap U = {}
               /\ R \cap M = {} /\ R \cap U = {} /\ M \cap U = {}
               /\ Cardinality(A) = Len(report.added)
               /\ Cardinality(R) = Len(report.removed)
               /\ Cardinality(M) = Len(report.modified)
               /\ \A i \in 1..Len(report.modified) :
                      report.modified[i].changes # <<>>

\* C12: in the report compare(current, previous) returns, the keys of
\* `added` are exactly the keys of current that previous lacks, the keys of
\* `removed` exactly the keys of previous that current lacks, each listed
\* once, and an employee whose key and raw record are the same in both
\* snapshots is in none of added, removed and modified.
C12_AddedRemovedKeys ==
    (cmp_out.done /\ ~cmp_out.value.raised) =>
        LET report == cmp_out.value.report
            cur == EmployeeKeys(cmp_cur.employees)
            prev == EmployeeKeys(cmp_prev.employees)
        IN  /\ EmployeeKeys(report.added) = cur \ prev
            /\ EmployeeKeys(report.removed) = prev \ cur
            /\ Len(report.added) = Cardinality(cur \ prev)
            /\ Len(report.removed) = Cardinality(prev \ cur)
            /\ \A key \in cur \cap prev :
                   CurrentOf(key).raw_data = PreviousOf(key).raw_data
                       => key \notin EmployeeKeys(report.added)
                                     \cup EmployeeKeys(report.removed)
                                     \cup EmployeeKeys(report.modified)

\* a report with one added and one removed employee beside one that is
\* the same in both snapshots
C12_Witness ==
    /\ cmp_out.done /\ ~cmp_out.value.raised
    /\ Len(cmp_out.value.report.added) = 1
    /\ Len(cmp_out.value.report.removed) = 1
    /\ \E key \in EmployeeKeys(cmp_cur.employees) \cap EmployeeKeys(cmp_prev.employees) :
           CurrentOf(key).raw_data = PreviousOf(key).raw_data

\* C13: for every key of both snapshots the report holds a ModifiedEmployee
\* of that key exactly when the diff of the two raw records under the
\* ignore-list is non-empty; every ModifiedEmployee carries a non-empty
\* change list, so an employee differing only in ignored paths is omitted.
C13_ModifiedIffDiff ==
    cmp_out.done =>
        \A key \in DOMAIN cmp_out.value.field_changes :
            /\ cmp_out.value.field_changes[key] # <<>>
                   <=> /\ ~cmp_out.value.raised
                       /\ \E i \in 1..Len(cmp_out.value.report.modified) :
                              /\ <<cmp_out.value.report.modified[i].id,
                                   cmp_out.value.report.modified[i].email>> = key
                              /\ cmp_out.value.report.modified[i].changes # <<>>
            /\ ~cmp_out.value.raised =>
                   \A i \in 1..Len(cmp_out.value.report.modified) :
                       cmp_out.value.report.modified[i].changes # <<>>

\* the employee of `key` that comes last in a snapshot's sequence
LastOfKey(employees, key) ==
    employees[CHOOSE i \in 1..Len(employees) :
                 /\ <<employees[i].id, employees[i].email>> = key
                 /\ \A j \in (i + 1)..Len(employees) :
                        <<employees[j].id, employees[j].email>> # key]

\* C17: when a snapshot holds several employees of one identity key (also
\* several malformed records, all of key ("", "")), only the last of them
\* counts: a key of both snapshots is diffed between the last employee of
\* the key in each, and the added and removed lists hold the last employee
\* of their keys.
C17_LastDuplicateWins ==
    cmp_out.done =>
        LET cur == EmployeeKeys(cmp_cur.employees)
            prev == EmployeeKeys(cmp_prev.employees)
        IN  /\ DOMAIN cmp_out.value.field_changes = cur \cap prev
            /\ \A key \in cur \cap prev :
                   cmp_out.value.field_changes[key] =
                       CompareEmployeeData(LastOfKey(cmp_cur.employees, key),
                                           LastOfKey(cmp_prev.employees, key))
            /\ ~cmp_out.value.raised =>
                   /\ \A i \in 1..Len(cmp_out.value.report.added) :
                          cmp_out.value.report.added[i] =
                              LastOfKey(cmp_cur.employees,
                                        <<cmp_out.value.report.added[i].id,
                                          cmp_out.value.report.added[i].email>>)
                   /\ \A i \in 1..Len(cmp_out.value.report.removed) :
                          cmp_out.value.report.removed[i] =
                              LastOfKey(cmp_prev.employees,
                                        <<cmp_out.value.report.removed[i].id,
                                          cmp_out.value.report.removed[i].email>>)

\* two malformed records of different content in the current snapshot, the
\* later one equal to the previous snapshot's: the key ("", "") is unchanged
C17_Witness ==
    /\ cmp_out.done /\ ~cmp_out.value.raised
    /\ Len(cmp_cur.employees) = 2
    /\ <<cmp_cur.employees[1].id, cmp_cur.employees[1].email>> = <<"", Str("")>>
    /\ <<cmp_cur.employees[2].id, cmp_cur.employees[2].email>> = <<"", Str("")>>
    /\ cmp_cur.employees[1].raw_data # cmp_cur.employees[2].raw_data
    /\ Len(cmp_prev.employees) = 1
    /\ cmp_prev.employees[1].raw_data = cmp_cur.employees[2].raw_data
    /\ ~HasChanges(cmp_out.value.report)

(***************************************************************************)
(* _deep_diff as a pure function of two nested values and an ignore-list,  *)
(* and compare_employee_lists on the same two values taken as snapshots of *)
(* one employee each, when they are records from_raw_data accepts.         *)
(***************************************************************************)
DiffLeaves == {None, Str("HR"), Str("IT")}

DiffLists ==
    {List(items) : items \in UNION {[1..k -> {None, Str("HR")}] : k \in 0..MaxListLen}}

\* what the `work` field holds: a scalar, a list, or a mapping
DiffWorks ==
    DiffLeaves \cup DiffLists
    \cup {DictOf([manager |-> m]) : m \in {Missing} \cup DiffLeaves}

\* an unusual top-level key a record may have: one that contains a dot, or
\* the empty string
OddKeys ==
    {[k \in {"work.manager", ""} |-> Missing],
     [k \in {"work.manager", ""} |->
         IF k = "work.manager" THEN Str("HR") ELSE Missing]}
    \cup {[k \in {"work.manager", ""} |->
               IF k = "" THEN Dict([id |-> i]) ELSE Missing] :
              i \in {Str("1"), Str("2")}}

\* records, one of whose top-level keys may contain a dot or be empty
DiffRecords ==
    {DictOf([k \in {"id", "work", "work.manager", ""} |->
                CASE k = "id" -> i
                  [] k = "work" -> w
                  [] OTHER -> d[k]]) :
        i \in {Missing, Str("1")},
        w \in {Missing} \cup DiffWorks,
        d \in OddKeys}

DiffValues == DiffRecords \cup DiffWorks

DiffIgnores == {{}, {"work"}, {"work.manager"}, {"work.[0]"}, {"id", "work.[1]"}}

\* a record Employee.from_raw_data accepts
WellFormed(raw_data) == IsDict(raw_data) /\ ~FromRawDataRaises(raw_data)

InitDiff ==
    /\ \E obj1 \in DiffValues, obj2 \in DiffValues, ignored_paths \in DiffIgnores :
          /\ diff_in = [obj1 |-> obj1, obj2 |-> obj2, ignored_paths |-> ignored_paths]
          /\ IF WellFormed(obj1) /\ WellFormed(obj2)
             THEN /\ cmp_cur = EmployeeListFromRawData(<<obj1>>, 2)
                  /\ cmp_prev = EmployeeListFromRawData(<<obj2>>, 1)
             ELSE cmp_cur = NotRun /\ cmp_prev = NotRun
    /\ diff_out = NotDone
    /\ cmp_out = NotDone
    /\ file = File("missing", None) /\ now = 0
    /\ cache_config = DEFAULT_CACHE_CONFIG
    /\ call = NoCall /\ run = NoRun
    /\ streak = [live |-> FALSE, n |-> 0, content |-> <<>>]
    /\ last_saved = NotDone
    /\ dd_in = <<>> /\ dd_out = NotDone
    /\ raw_in = NotRun /\ emp_out = NotDone
    /\ procs = NoProcs /\ NoFetch

Diff ==
    /\ ~diff_out.done
    /\ diff_out' = Done(DeepDiff(diff_in.obj1, diff_in.obj2, "", diff_in.ignored_paths))
    /\ UNCHANGED <<file, now, cache_config, call, streak, dd_in, dd_out,
                   cmp_cur, cmp_prev, cmp_out, run,
                   last_saved, diff_in, raw_in, emp_out, procs, endpoints, fetch>>

CompareRecords ==
    /\ cmp_cur # NotRun
    /\ Compare

NextDiff == Diff \/ CompareRecords

SpecDiff == InitDiff /\ [][NextDiff]_vars

(***************************************************************************)
(* Claims about the differ, checked under SpecDiff.                        *)
(***************************************************************************)
\* the path of a location; the root has the empty path
LocationPath(ks) == IF ks = <<>> THEN "" ELSE PathString(ks)

\* the locations of the two diffed values, the root among them
DiffLocations == Locations(diff_in.obj1) \cup Locations(diff_in.obj2) \cup {<<>>}

\* the location is at an ignored path or beneath one
UnderIgnored(ks, ignored_paths) ==
    \E n \in 0..Len(ks) : LocationPath(SubSeq(ks, 1, n)) \in ignored_paths

C15_DiffOfEqualIsEmpty ==
    /\ (diff_out.done /\ diff_in.obj1 = diff_in.obj2) => diff_out.value = <<>>
    /\ (cmp_out.done /\ EmployeeListEq(cmp_cur, cmp_prev)) =>
           /\ ~cmp_out.value.raised
           /\ ~HasChanges(cmp_out.value.report)

\* a nested record was diffed against itself under an empty ignore-list,
\* and the two snapshots holding it, stamped differently, were compared
C15_Witness ==
    /\ diff_out.done /\ cmp_out.done
    /\ diff_in.obj1 = diff_in.obj2
    /\ diff_in.ignored_paths = {}
    /\ IsDict(diff_in.obj1)
    /\ Lookup(diff_in.obj1, <<"work", "manager">>) = Str("HR")
    /\ cmp_cur.timestamp # cmp_prev.timestamp
    /\ cmp_out.value.report.added = <<>>

\* a list without its trailing None elements
RECURSIVE StripTrailingNone(_)
StripTrailingNone(items) ==
    IF items # <<>> /\ items[Len(items)] = None
    THEN StripTrailingNone(SubSeq(items, 1, Len(items) - 1))
    ELSE items

\* the value with every mapping key whose value is None left out and every
\* list cut after its last element that is not None, at every level
RECURSIVE WithoutNone(_)
WithoutNone(x) ==
    IF IsDict(x)
    THEN Dict([k \in {k \in DOMAIN x.v : x.v[k] # None} |-> WithoutNone(x.v[k])])
    ELSE IF IsList(x)
    THEN List(StripTrailingNone([i \in 1..Len(x.v) |-> WithoutNone(x.v[i])]))
    ELSE x

\* C25 (as claimed): with an empty ignore-list, _deep_diff(a, b) is empty if
\* and only if a and b are deeply equal, a mapping key with value None on
\* one side and absent on the other and lists that differ by trailing None
\* elements included.
C25_EmptyIffEqual ==
    (diff_out.done /\ diff_in.ignored_paths = {})
        => (diff_out.value = <<>> <=> diff_in.obj1 = diff_in.obj2)

\* C25 (amended): with an empty ignore-list, _deep_diff(a, b) is empty if
\* and only if a and b are deeply equal once mapping keys whose value is
\* None count as absent and trailing None elements of lists are dropped.
C25_EmptyIffEqualUpToNone ==
    (diff_out.done /\ diff_in.ignored_paths = {})
        => (diff_out.value = <<>>
               <=> WithoutNone(diff_in.obj1) = WithoutNone(diff_in.obj2))

\* a list was diffed against the same list with a trailing None, or a
\* mapping against the same mapping with one more key holding None: the
\* values differ and the diff is empty
C25_Witness ==
    /\ diff_out.done /\ diff_in.ignored_paths = {}
    /\ diff_in.obj1 # diff_in.obj2
    /\ diff_out.value = <<>>
    /\ \/ /\ Lookup(diff_in.obj1, <<"work">>) = List(<<Str("HR")>>)
          /\ Lookup(diff_in.obj2, <<"work">>) = List(<<Str("HR"), None>>)
       \/ /\ Lookup(diff_in.obj1, <<"work">>) = Dict([manager |-> None])
          /\ Lookup(diff_in.obj2, <<"work">>) = EmptyDict

\* the mapping keys of a nested value, at every level
RECURSIVE Keys(_)
Keys(v) ==
    IF IsDict(v)
    THEN DOMAIN v.v \cup UNION {Keys(v.v[k]) : k \in DOMAIN v.v}
    ELSE IF IsList(v) THEN UNION {Keys(v.v[i]) : i \in 1..Len(v.v)}
    ELSE {}

\* of the keys of the records used here, the one that contains a dot
DottedKeys == {"work.manager"}

\* no mapping key of the two diffed values is empty or contains a dot
PlainKeysOnly ==
    \A k \in Keys(diff_in.obj1) \cup Keys(diff_in.obj2) :
        k # "" /\ k \notin DottedKeys

\* the FieldChanges of the output have pairwise distinct paths, and each
\* path is the path of exactly one location of the two diffed values
PathsAddressOneLocation ==
    /\ \A i, j \in 1..Len(diff_out.value) :
           i # j => diff_out.value[i].field_path # diff_out.value[j].field_path
    /\ \A i \in 1..Len(diff_out.value) :
           Cardinality({ks \in DiffLocations :
                           LocationPath(ks) = diff_out.value[i].field_path}) = 1

\* C26 (as claimed): the FieldChanges of one diff output have pairwise
\* distinct field_path values, each path addressing exactly one location
\* of the compared records, a top-level key that contains a dot or an
\* empty-string key included.
C26_DistinctPaths == diff_out.done => PathsAddressOneLocation

\* C26 (amended): when no mapping key of the compared records is empty or
\* contains a dot, the FieldChanges of one diff output have pairwise
\* distinct field_path values, each the path of exactly one location.
C26_DistinctPathsPlainKeys ==
    (diff_out.done /\ PlainKeysOnly) => PathsAddressOneLocation

\* two records with plain keys differ in their id and in both elements of
\* the list they hold: three FieldChanges at three paths
C26_Witness ==
    /\ diff_out.done /\ PlainKeysOnly
    /\ diff_in.ignored_paths = {}
    /\ {diff_out.value[i].field_path : i \in 1..Len(diff_out.value)}
           = {"id", "work.[0]", "work.[1]"}
    /\ Len(diff_out.value) = 3

(***************************************************************************)
(* Employee.from_raw_data as a pure function of one raw record whose id,   *)
(* email, work and personalEmail are each absent or one of a few values.   *)
(***************************************************************************)
EmployeeRaws ==
    {DictOf(fields) : fields \in
        [id : {Missing, Str("1")},
         email : {Missing, None, Str(""), Str("a@x.com")},
         work : {Missing, None, EmptyDict, Dict([email |-> Str("")]),
                 Dict([email |-> Str("w@x.com")])},
         personalEmail : {Missing, None, Str(""), Str("p@x.com")}]}

InitEmployee ==
    /\ raw_in \in EmployeeRaws
    /\ emp_out = NotDone
    /\ file = File("missing", None) /\ now = 0
    /\ cache_config = DEFAULT_CACHE_CONFIG
    /\ call = NoCall /\ run = NoRun
    /\ streak = [live |-> FALSE, n |-> 0, content |-> <<>>]
    /\ last_saved = NotDone
    /\ dd_in = <<>> /\ dd_out = NotDone
    /\ cmp_cur = NotRun /\ cmp_prev = NotRun /\ cmp_out = NotDone
    /\ diff_in = NotRun /\ diff_out = NotDone
    /\ procs = NoProcs /\ NoFetch

FromRawData ==
    /\ ~emp_out.done
    /\ emp_out' = Done(IF FromRawDataRaises(raw_in) THEN Raised
                       ELSE Returned(EmployeeFromRawData(raw_in)))
    /\ UNCHANGED <<file, now, cache_config, call, streak, dd_in, dd_out,
                   cmp_cur, cmp_prev, cmp_out, run,
                   last_saved, diff_in, diff_out, raw_in, procs, endpoints, fetch>>

NextEmployee == FromRawData

SpecEmployee == InitEmployee /\ [][NextEmployee]_vars

\* the first non-empty of the values, the empty string when there is none
FirstNonEmpty(values) ==
    IF \E i \in 1..Len(values) : Truthy(values[i])
    THEN values[CHOOSE i \in 1..Len(values) :
                    /\ Truthy(values[i])
                    /\ \A j \in 1..(i - 1) : ~Truthy(values[j])]
    ELSE Str("")

\* C19: from_raw_data sets email to the top-level `email` when that is
\* non-empty, otherwise to work.email, otherwise to personalEmail,
\* otherwise to "", whether or not the record has a `work` mapping.
C19_EmailPrecedence ==
    (emp_out.done /\ ~emp_out.value.raised) =>
        emp_out.value.value.email =
            FirstNonEmpty(<<Get(raw_in, "email", Str("")),
                            IF IsDict(Get(raw_in, "work", None))
                            THEN Get(raw_in.v["work"], "email", Str(""))
                            ELSE Str(""),
                            Get(raw_in, "personalEmail", Str(""))>>)

(***************************************************************************)
(* __main__.py: runs of the monitor against one cache file.                *)
(*                                                                         *)
(* run.pc: "off" before the first run, "fetched" after                     *)
(* fetch_new_employee_list returned a snapshot, "tracked" after the change *)
(* tracking step, "exited" when the process has ended.                     *)
(***************************************************************************)
RunContents == {<<RawA_HR>>, <<RawA_IT>>, <<RawA_HR, RawB>>}

\* what the cache file may hold before the first run
RunInitFiles ==
    {File("missing", None), File("invalid_json", None), File("json", List(<<>>))}
    \cup {HistoryFile(h) :
             h \in UNION {[1..k -> RunContents] : k \in 0..MaxInitLen}}

Outputs == {"changes", "employee_list", "none"}

\* output.py:146-189: the text is kept as the report it renders
FormatChangeReportAsText(report) ==
    IF ~HasChanges(report) THEN Str("No changes detected.")
    ELSE [t |-> "text", report |-> report]

NewRun(n) ==
    [pc |-> "off", n |-> n, tracking |-> FALSE, output |-> "none",
     employee_list |-> None, previous |-> None, compared |-> "no",
     has_changes |-> FALSE, text |-> None, save |-> "not_called",
     logged |-> FALSE, exit |-> "none", stdout |-> None, stderr |-> None]

Init ==
    /\ file \in RunInitFiles
    /\ now = MaxInitLen + 1
    /\ cache_config = DEFAULT_CACHE_CONFIG
    /\ run = NewRun(0)
    /\ call = NoCall
    /\ streak = [live |-> FALSE, n |-> 0, content |-> <<>>]
    /\ last_saved = NotDone
    /\ Idle

\* __main__.py:61-67 (and 199-208): a run starts with its arguments and
\* fetches; main() refuses stdout output "changes" with tracking disabled
FetchEmployees ==
    /\ run.pc \in {"off", "exited"}
    /\ run.n < MaxRuns
    /\ \E tracking \in BOOLEAN, output \in Outputs, content \in RunContents :
          /\ (output = "changes" => tracking)
          /\ run' = [NewRun(run.n + 1) EXCEPT
                        !.pc = "fetched", !.tracking = tracking, !.output = output,
                        !.employee_list = EmployeeListFromRawData(content, now)]
    /\ now' = now + 1
    /\ UNCHANGED <<file, cache_config, call, streak, dd_in, dd_out,
                   cmp_cur, cmp_prev, cmp_out,
                   last_saved, diff_in, diff_out, raw_in, emp_out, procs, endpoints, fetch>>

\* __main__.py:63-65, 136-141: authentication failed or no endpoint gave
\* active employees: sys.exit(1)
FetchFails ==
    /\ run.pc \in {"off", "exited"}
    /\ run.n < MaxRuns
    /\ run' = [NewRun(run.n + 1) EXCEPT !.pc = "exited", !.exit = "1"]
    /\ UNCHANGED <<file, now, cache_config, call, streak, dd_in, dd_out,
                   cmp_cur, cmp_prev, cmp_out,
                   last_saved, diff_in, diff_out, raw_in, emp_out, procs, endpoints, fetch>>

\* an exception nobody catches ends the process with a traceback
Crash(r) == [r EXCEPT !.pc = "exited", !.exit = "1"]

\* __main__.py:153: get_changes_since_latest_cache reads the latest snapshot
\* of the cache file as the run found it; get_change_report calls save_cache
\* (line 125) only after it returned (line 102)
PreviousAfterSave(employee_list, cache_file) ==
    GetLatestCache(
        SaveCache(employee_list, cache_file, DEFAULT_CACHE_CONFIG, "none").file)
PreviousEmployeeList(employee_list, cache_file) == GetLatestCache(cache_file)

\* __main__.py:81-83 with get_change_report (97-127) and
\* get_changes_since_latest_cache (149-156)
GetChangeReport ==
    /\ run.pc = "fetched"
    /\ \E fault \in FaultsOn(file), log_ok \in BOOLEAN :
          LET latest == PreviousEmployeeList(run.employee_list, file)
              cmp == CompareEmployeeLists(run.employee_list, latest.value)
              saved == SaveCache(run.employee_list, file, DEFAULT_CACHE_CONFIG, fault)
          IN  IF ~run.tracking
              THEN /\ run' = [run EXCEPT !.pc = "tracked"]
                   /\ file' = file
              ELSE IF latest.raised
              THEN /\ run' = Crash(run)
                   /\ file' = file
              ELSE IF latest.value = None
              THEN \* first run: nothing is compared
                   /\ run' = [run EXCEPT !.pc = "tracked"]
                   /\ file' = file
              ELSE IF cmp.raised
              THEN /\ run' = Crash([run EXCEPT !.previous = latest.value,
                                               !.compared = "raised"])
                   /\ file' = file
              ELSE IF ~HasChanges(cmp.report)
              THEN /\ run' = [run EXCEPT !.pc = "tracked",
                                         !.previous = latest.value,
                                         !.compared = "returned"]
                   /\ file' = file
              ELSE /\ run' = [run EXCEPT
                                 !.pc = IF saved.raised THEN "exited" ELSE "tracked",
                                 !.exit = IF saved.raised THEN "1" ELSE "none",
                                 !.previous = latest.value,
                                 !.compared = "returned",
                                 !.has_changes = TRUE,
                                 !.text = FormatChangeReportAsText(cmp.report),
                                 !.logged = log_ok,
                                 !.save = fault]
                   /\ file' = saved.file
    /\ UNCHANGED <<now, cache_config, call, streak, dd_in, dd_out,
                   cmp_cur, cmp_prev, cmp_out,
                   last_saved, diff_in, diff_out, raw_in, emp_out, procs, endpoints, fetch>>

\* __main__.py:69: list_format.format(employee_list), kept as the list it
\* renders
FormattedList(employee_list) == [t |-> "formatted_list", of |-> employee_list]

\* __main__.py:85-94
WriteOutput ==
    /\ run.pc = "tracked"
    /\ run' = [run EXCEPT
                  !.pc = "exited", !.exit = "0",
                  !.stdout = IF run.output = "changes" THEN run.text ELSE None,
                  !.stderr = IF run.output = "employee_list"
                             THEN FormattedList(run.employee_list)
                             ELSE None]
    /\ UNCHANGED <<file, now, cache_config, call, streak, dd_in, dd_out,
                   cmp_cur, cmp_prev, cmp_out,
                   last_saved, diff_in, diff_out, raw_in, emp_out, procs, endpoints, fetch>>

Next == FetchEmployees \/ FetchFails \/ GetChangeReport \/ WriteOutput

Spec == Init /\ [][Next]_vars

(***************************************************************************)
(* Claims about a run, checked under Spec.                                 *)
(***************************************************************************)
\* the change tracking step of a run has ended (the process may have too)
Tracked == run.pc = "tracked" \/ (run.pc = "exited" /\ run.exit = "0")

\* C5: a run with change tracking enabled and a successful fetch that
\* found a previous snapshot in the cache and compared against it appends
\* the fetched snapshot to the cache afterwards, changes or none: save_cache
\* is called, and unless storage fails the fetched snapshot is the latest.
C5_RunAppendsSnapshot ==
    (Tracked /\ run.tracking /\ run.compared = "returned")
        => /\ run.save # "not_called"
           /\ run.save = "none" => GetLatestCache(file) = Returned(run.employee_list)

\* C20: a run with change tracking enabled and a successful fetch that
\* finds no previous snapshot (cache file missing or empty: a first run)
\* persists the fetched snapshot as the initial cache: save_cache is
\* called, and unless storage fails the next get_latest_cache returns the
\* fetched snapshot, so the next run has something to compare against.
C20_FirstRunCreatesCache ==
    (Tracked /\ run.tracking /\ run.compared = "no")
        => /\ run.save # "not_called"
           /\ run.save = "none" => GetLatestCache(file) = Returned(run.employee_list)

\* C21: within one run the comparison is made against the snapshot that
\* was the latest of the cache before this run appended anything (the read
\* of the latest precedes the run's save_cache), so a run never compares
\* its fetched snapshot against itself.
C21_ReadPrecedesSave ==
    [][(run.pc = "fetched" /\ run'.compared # "no")
          => /\ Returned(run'.previous) = GetLatestCache(file)
             /\ run'.previous # run'.employee_list]_vars

\* a run compared against the previous snapshot, found changes and then
\* appended its own snapshot, which is now the latest of the cache
C21_Witness ==
    /\ run.compared = "returned" /\ run.has_changes /\ run.save = "none"
    /\ GetLatestCache(file) = Returned(run.employee_list)
    /\ run.previous # None /\ run.previous # run.employee_list

\* C23: the selected stdout output decides what a run that ends normally
\* has written to standard output: "employee_list" the formatted employee
\* list, "changes" the change report text and only when changes were
\* detected, "none" nothing.
C23_StdoutFollowsOutput ==
    (run.pc = "exited" /\ run.exit = "0")
        => run.stdout = CASE run.output = "employee_list" ->
                                 FormattedList(run.employee_list)
                          [] run.output = "changes" ->
                                 IF run.has_changes THEN run.text ELSE None
                          [] run.output = "none" -> None

(***************************************************************************)
(* Two invocations of save_cache on one cache file, each with the          *)
(* configuration the monitor passes.  A save is three steps: load_cache    *)
(* (cache.py:83), open("w"), which truncates the file (line 108), and      *)
(* json.dump with the close that flushes it (line 109).  Each invocation   *)
(* writes through its own file object from offset 0, so text a longer      *)
(* write of the other left behind it stays in the file.                    *)
(***************************************************************************)
\* len(str(n)) for an integer
RECURSIVE DecLen(_)
DecLen(n) ==
    IF n < 0 THEN 1 + DecLen(-n)
    ELSE IF n < 10 THEN 1
    ELSE 1 + DecLen(n \div 10)

\* the number of characters json.dump(v, indent=2, ensure_ascii=False)
\* writes for a value at nesting depth `depth`, its strings needing no escape
RECURSIVE JsonLen(_, _)
RECURSIVE JsonItemsLen(_, _, _)
RECURSIVE JsonListLen(_, _)
JsonLen(v, depth) ==
    CASE v.t = "none" -> 4
      [] v.t = "bool" -> IF v.v THEN 4 ELSE 5
      [] v.t = "int" -> DecLen(v.v)
      [] v.t = "str" -> Len(v.v) + 2
      [] v.t = "dict" ->
            IF DOMAIN v.v = {} THEN 2
            ELSE 1 + JsonItemsLen(v, SetToSeq(DOMAIN v.v), depth + 1)
                 + (Cardinality(DOMAIN v.v) - 1) + 1 + 2 * depth + 1
      [] v.t = "list" ->
            IF Len(v.v) = 0 THEN 2
            ELSE 1 + JsonListLen(v.v, depth + 1)
                 + (Len(v.v) - 1) + 1 + 2 * depth + 1
\* newline, indentation, "key": and the value, for each key
JsonItemsLen(v, keys, depth) ==
    IF keys = <<>> THEN 0
    ELSE 1 + 2 * depth + Len(Head(keys)) + 2 + 2 + JsonLen(v.v[Head(keys)], depth)
         + JsonItemsLen(v, Tail(keys), depth)
\* newline, indentation and the value, for each item
JsonListLen(items, depth) ==
    IF items = <<>> THEN 0
    ELSE 1 + 2 * depth + JsonLen(Head(items), depth)
         + JsonListLen(Tail(items), depth)

\* the length of the file's content
FileLen(f) == IF f.st = "json" THEN JsonLen(f.data, 0) ELSE 0

\* open("w"): the file exists and is empty
Truncated == File("invalid_json", None)

\* the file after `data` was written from offset 0 over content f: text of
\* f beyond the end of the new text stays, and json.load rejects the whole
WrittenOver(f, data) ==
    IF FileLen(f) > JsonLen(data, 0) THEN File("invalid_json", None)
    ELSE File("json", data)

Procs == {1, 2}

ConcurrentInitFiles ==
    {File("missing", None)}
    \cup {HistoryFile(h) :
             h \in UNION {[1..k -> RunContents] : k \in 0..MaxInitLen}}

InitConcurrent ==
    /\ file \in ConcurrentInitFiles
    /\ now = MaxInitLen + 3
    /\ \E c1 \in RunContents, c2 \in RunContents :
          procs = [proc |-> [p \in Procs |->
                                [pc |-> "start",
                                 employee_list |->
                                     EmployeeListFromRawData(IF p = 1 THEN c1 ELSE c2,
                                                             MaxInitLen + p),
                                 existing_entries |-> <<>>,
                                 all_entries |-> <<>>]],
                   log |-> <<>>]
    /\ cache_config = DEFAULT_CACHE_CONFIG
    /\ call = NoCall /\ run = NoRun
    /\ streak = [live |-> FALSE, n |-> 0, content |-> <<>>]
    /\ last_saved = NotDone
    /\ dd_in = <<>> /\ dd_out = NotDone
    /\ cmp_cur = NotRun /\ cmp_prev = NotRun /\ cmp_out = NotDone
    /\ diff_in = NotRun /\ diff_out = NotDone
    /\ raw_in = NotRun /\ emp_out = NotDone
    /\ NoFetch

\* cache.py:83-94: load the history and build the list to persist
SaveLoads ==
    \E p \in Procs :
        /\ procs.proc[p].pc = "start"
        /\ ~LoadCache(file).raised
        /\ procs' = [proc |-> [procs.proc EXCEPT
                        ![p].pc = "loaded",
                        ![p].existing_entries = LoadCache(file).value,
                        ![p].all_entries =
                            NewEntries(LoadCache(file).value,
                                       procs.proc[p].employee_list, cache_config)],
                     log |-> Append(procs.log, <<p, "load">>)]
        /\ UNCHANGED <<file, now, cache_config, call, streak, dd_in, dd_out,
                       cmp_cur, cmp_prev, cmp_out, run,
                       last_saved, diff_in, diff_out, raw_in, emp_out, endpoints, fetch>>

\* cache.py:97 and 108: mkdir, then open("w") truncates the file
SaveOpens ==
    \E p \in Procs :
        /\ procs.proc[p].pc = "loaded"
        /\ file' = Truncated
        /\ procs' = [proc |-> [procs.proc EXCEPT ![p].pc = "opened"],
                     log |-> Append(procs.log, <<p, "open">>)]
        /\ UNCHANGED <<now, cache_config, call, streak, dd_in, dd_out,
                       cmp_cur, cmp_prev, cmp_out, run,
                       last_saved, diff_in, diff_out, raw_in, emp_out, endpoints, fetch>>

\* cache.py:100-109: json.dump, flushed when the file is closed
SaveWrites ==
    \E p \in Procs :
        /\ procs.proc[p].pc = "opened"
        /\ file' = WrittenOver(file, CacheData(procs.proc[p].all_entries, cache_config))
        /\ procs' = [proc |-> [procs.proc EXCEPT ![p].pc = "done"],
                     log |-> Append(procs.log, <<p, "write">>)]
        /\ UNCHANGED <<now, cache_config, call, streak, dd_in, dd_out,
                       cmp_cur, cmp_prev, cmp_out, run,
                       last_saved, diff_in, diff_out, raw_in, emp_out, endpoints, fetch>>

NextConcurrent == SaveLoads \/ SaveOpens \/ SaveWrites

SpecConcurrent == InitConcurrent /\ [][NextConcurrent]_vars

(***************************************************************************)
(* Claims about concurrent invocations, checked under SpecConcurrent.      *)
(***************************************************************************)
\* when step `step` of invocation p happened
StepAt(p, step) == CHOOSE i \in 1..Len(procs.log) : procs.log[i] = <<p, step>>

BothDone == procs # NoProcs /\ \A p \in Procs : procs.proc[p].pc = "done"

\* both invocations loaded the history before either began to save
BothLoadedFirst ==
    \A p \in Procs, q \in Procs : StepAt(p, "load") < StepAt(q, "open")

\* one invocation opened the file while the other had it open
SavesOverlap ==
    \A p \in Procs, q \in Procs : StepAt(p, "open") < StepAt(q, "write")

LastWriter == procs.log[Len(procs.log)][1]

\* the file holds what invocation p meant to persist: the history p
\* loaded, then p's snapshot, deduplicated; and nothing of invocation q
HoldsResultOf(p, q) ==
    /\ file.st = "json"
    /\ PersistedEntries(file) =
           LET all_entries ==
                   DeduplicateConsecutive(Append(procs.proc[p].existing_entries,
                                                 procs.proc[p].employee_list))
           IN  [i \in 1..Len(all_entries) |-> ToDict(all_entries[i])]
    /\ \A i \in 1..Len(PersistedEntries(file)) :
           PersistedEntries(file)[i] # ToDict(procs.proc[q].employee_list)

\* C18 (as claimed): when two appends interleave so that both load the
\* history before either saves, the history persisted after both have
\* completed is the last writer's result and lacks the other's snapshot.
C18_LastWriterWins ==
    (BothDone /\ BothLoadedFirst) => HoldsResultOf(LastWriter, 3 - LastWriter)

\* C18 (amended): when two appends interleave so that both load the
\* history before either saves, and the two saves do not overlap (one has
\* written and closed the file before the other opens it), the history
\* persisted after both have completed is the last writer's result and
\* lacks the other's snapshot.
C18_LostUpdate ==
    (BothDone /\ BothLoadedFirst /\ ~SavesOverlap)
        => HoldsResultOf(LastWriter, 3 - LastWriter)

\* both invocations loaded a history of two snapshots, then saved one
\* after the other: the file holds the second saver's three entries
C18_Witness ==
    /\ BothDone /\ BothLoadedFirst /\ ~SavesOverlap
    /\ Len(procs.proc[1].existing_entries) = 2
    /\ procs.proc[2].existing_entries = procs.proc[1].existing_entries
    /\ HoldsResultOf(LastWriter, 3 - LastWriter)
    /\ Len(PersistedEntries(file)) = 3


(***************************************************************************)
(* employees.py and http_utils.py: get_active_employees asks the endpoints *)
(* of API_ENDPOINTS one after the other.  `endpoints` holds what the       *)
(* server answers at each of them: an HTTP status (0 when no response      *)
(* arrives: urllib.error.URLError, a timeout) and the decoded JSON body.   *)
(***************************************************************************)
API_ENDPOINTS ==
    <<"/api/employees", "/api/v1/employees", "/api/people", "/api/v1/people",
      "/api/v2/people">>

EMPLOYEE_DATA_KEYS == <<"employees", "people", "data", "results", "values">>

EMPLOYEE_FIELDS == {"id", "email"}

\* config.py of this snapshot does not define the constant that employees.py
\* imports; "active" is the status from_raw_data gives by default
ACTIVE_STATUS_VALUES == {"active"}

Answer(status, body) == [status |-> status, body |-> body]

\* make_request: the body of a 200, None for another status that urlopen
\* returns, and an exception for every HTTPError (PermissionError for 401
\* and 403, FileNotFoundError for 404, ConnectionError for the others) and
\* for the URLError that no handler catches
MakeRequest(answer) ==
    CASE answer.status = 200 -> Returned(answer.body)
      [] answer.status \in 201..299 -> Returned(None)
      [] OTHER -> Raised

\* _is_employee_object
IsEmployeeObject(data) ==
    IsDict(data) /\ \A field \in EMPLOYEE_FIELDS : field \in DOMAIN data.v

\* _extract_employees_from_response
ExtractEmployeesFromResponse(data) ==
    IF IsList(data) THEN data.v
    ELSE IF IsDict(data)
    THEN LET hits == {i \in 1..Len(EMPLOYEE_DATA_KEYS) :
                         /\ EMPLOYEE_DATA_KEYS[i] \in DOMAIN data.v
                         /\ IsList(data.v[EMPLOYEE_DATA_KEYS[i]])}
         IN  IF hits # {}
             THEN data.v[EMPLOYEE_DATA_KEYS[
                      CHOOSE i \in hits : \A j \in hits : i <= j]].v
             ELSE IF IsEmployeeObject(data) THEN <<data>> ELSE <<>>
    ELSE <<>>

\* _is_employee_active
IsEmployeeActive(employee) ==
    IF ~IsDict(employee) THEN FALSE
    ELSE IF "status" \in DOMAIN employee.v
    THEN Lower(PyStr(employee.v["status"])) \in ACTIVE_STATUS_VALUES
    ELSE IF /\ "employment" \in DOMAIN employee.v
            /\ IsDict(employee.v["employment"])
            /\ "status" \in DOMAIN employee.v["employment"].v
    THEN Lower(PyStr(employee.v["employment"].v["status"])) \in ACTIVE_STATUS_VALUES
    ELSE IF "isActive" \in DOMAIN employee.v
    THEN Truthy(employee.v["isActive"])
    ELSE IF "terminationDate" \in DOMAIN employee.v
    THEN employee.v["terminationDate"] \in {None, Str("")}
    ELSE IF "endDate" \in DOMAIN employee.v
    THEN employee.v["endDate"] \in {None, Str("")}
    ELSE TRUE

\* _filter_active_employees; logging an inactive element that is not a dict
\* calls .get on it and raises AttributeError
FilterActiveEmployees(employees) ==
    IF \E i \in 1..Len(employees) : ~IsDict(employees[i]) THEN Raised
    ELSE Returned(SelectSeq(employees, IsEmployeeActive))

\* _try_endpoint, with the clock value t that from_raw_data reads
TryEndpoint(answer, t) ==
    LET data == MakeRequest(answer)
    IN  IF data.raised THEN Raised
        ELSE IF data.value = None THEN Returned(None)
        ELSE LET employees_data == ExtractEmployeesFromResponse(data.value)
                 active_employees_data == FilterActiveEmployees(employees_data)
             IN  IF employees_data = <<>> THEN Returned(None)
                 ELSE IF active_employees_data.raised THEN Raised
                 ELSE IF active_employees_data.value = <<>> THEN Returned(None)
                 ELSE IF \E i \in 1..Len(active_employees_data.value) :
                            FromRawDataRaises(active_employees_data.value[i])
                 THEN Raised
                 ELSE Returned(EmployeeListFromRawData(
                                   active_employees_data.value, t))

RawC_Terminated == Dict([id |-> Str("3"), email |-> Str("c@x.com"),
                         status |-> Str("terminated")])
RawD_NotActive == Dict([id |-> Str("4"), email |-> Str("d@x.com"),
                        isActive |-> Bool(FALSE)])

\* what the server may answer at one endpoint
Answers ==
    {Answer(404, None), Answer(500, None), Answer(204, None),
     Answer(200, Dict([message |-> Str("no such resource")])),
     Answer(200, List(<<RawC_Terminated>>)),
     Answer(200, Dict([employees |-> List(<<RawA_HR>>)])),
     Answer(200, List(<<RawD_NotActive, RawB>>))}

InitFetch ==
    /\ endpoints \in [1..Len(API_ENDPOINTS) -> Answers]
    /\ fetch = [i |-> 1, result |-> NotDone]
    /\ file = File("missing", None) /\ now = 0
    /\ cache_config = DEFAULT_CACHE_CONFIG
    /\ call = NoCall /\ run = NoRun
    /\ streak = [live |-> FALSE, n |-> 0, content |-> <<>>]
    /\ last_saved = NotDone
    /\ dd_in = <<>> /\ dd_out = NotDone
    /\ cmp_cur = NotRun /\ cmp_prev = NotRun /\ cmp_out = NotDone
    /\ diff_in = NotRun /\ diff_out = NotDone
    /\ raw_in = NotRun /\ emp_out = NotDone
    /\ procs = NoProcs

\* employees.py:126-129: one turn of the loop; fetch.i counts the endpoints
\* asked so far, plus one
TryNextEndpoint ==
    /\ ~fetch.result.done
    /\ fetch.i <= Len(API_ENDPOINTS)
    /\ LET result == TryEndpoint(endpoints[fetch.i], now)
       IN  fetch' = [i |-> fetch.i + 1,
                     result |-> IF result.raised \/ result.value # None
                                THEN Done(result) ELSE NotDone]
    /\ UNCHANGED <<file, now, cache_config, call, streak, dd_in, dd_out,
                   cmp_cur, cmp_prev, cmp_out, run, last_saved, diff_in,
                   diff_out, raw_in, emp_out, procs, endpoints>>

\* employees.py:131-132: the list is exhausted
NoEndpointLeft ==
    /\ ~fetch.result.done
    /\ fetch.i > Len(API_ENDPOINTS)
    /\ fetch' = [fetch EXCEPT !.result = Done(Returned(None))]
    /\ UNCHANGED <<file, now, cache_config, call, streak, dd_in, dd_out,
                   cmp_cur, cmp_prev, cmp_out, run, last_saved, diff_in,
                   diff_out, raw_in, emp_out, procs, endpoints>>

NextFetch == TryNextEndpoint \/ NoEndpointLeft

SpecFetch == InitFetch /\ [][NextFetch]_vars

\* the active employees the answer of an endpoint carries, none when the
\* request failed
ActiveEmployeesOf(answer) ==
    IF answer.status = 200
    THEN SelectSeq(ExtractEmployeesFromResponse(answer.body), IsEmployeeActive)
    ELSE <<>>

\* the endpoints that yield a non-empty list of active employees
Yielding == {k \in 1..Len(API_ENDPOINTS) : ActiveEmployeesOf(endpoints[k]) # <<>>}

\* C22: get_active_employees asks the endpoints in list order and returns
\* the result of the first one that yields a non-empty list of active
\* employees; an endpoint whose request fails (an HTTP error status, or no
\* data) is skipped, and None is returned only after every endpoint has
\* been tried.
C22_FirstYieldingEndpoint ==
    fetch.result.done
        => IF Yielding = {}
           THEN /\ fetch.result.value = Returned(None)
                /\ fetch.i = Len(API_ENDPOINTS) + 1
           ELSE LET first == CHOOSE k \in Yielding : \A j \in Yielding : k <= j
                IN  /\ fetch.result.value =
                           Returned(EmployeeListFromRawData(
                                        ActiveEmployeesOf(endpoints[first]), now))
                    /\ fetch.i = first + 1

====
